---- MODULE Spec2Model ----
(***************************************************************************)
(* tc-class_exporter: a Prometheus exporter that shells out to             *)
(* `/usr/sbin/tc -name -s -j {class|qdisc} show dev <nic>` for every       *)
(* configured interface that exists, decodes the JSON and publishes the    *)
(* numeric fields as gauges on /metrics (statistics) and /params           *)
(* (parameters).                                                           *)
(*                                                                         *)
(* Three specifications live here:                                         *)
(*   SpecCollect - collectMetricsClasses / collectMetricsQdiscs as pure    *)
(*                 functions of (configured list, host interfaces, what tc *)
(*                 answers per invocation);                                *)
(*   Spec        - the HTTP server: two handler goroutines running the     *)
(*                 /metrics and /params closures over the shared gauges,   *)
(*                 overlapping at will;                                    *)
(*   SpecHotplug - the HTTP server handling one request at a time while    *)
(*                 interfaces appear and disappear.                        *)
(***************************************************************************)
EXTENDS Integers, Sequences, FiniteSets, TLC

VARIABLES
    nics,       \* flag.Args(): the configured interface list (fixed after start)
    host,       \* interfaces net.InterfaceByName currently resolves
    kindIn,     \* SpecCollect: which collector is exercised ("class" / "qdisc")
    tcIn,       \* SpecCollect: tc's answer for the invocation at each list position
    ret,        \* SpecCollect: what the collector returned (NotRun before the call)
    gauges,     \* Spec: GaugeVec name -> set of samples [labels, val]
    pc,         \* Spec: handler goroutine -> position in the closure
    endpoint,   \* Spec: handler goroutine -> "/metrics" or "/params"
    classes,    \* Spec: handler local `classes`
    qdiscs,     \* Spec: handler local `qdiscs`
    ci,         \* Spec: number of class records already ranged over (gauges set)
    qi,         \* Spec: number of qdisc records already ranged over
    resp,       \* Spec: what the handler wrote to the ResponseWriter
    hist,       \* Spec: history of the running request (commands issued, steps taken)
    lastSeen    \* Spec: whether a request has finished, and the interfaces the
                \*       latest finished one found existing

vars == <<nics, host, kindIn, tcIn, ret, gauges, pc, endpoint, classes, qdiscs,
          ci, qi, resp, hist, lastSeen>>

collectVars == <<kindIn, tcIn, ret>>
serverVars ==
    <<gauges, pc, endpoint, classes, qdiscs, ci, qi, resp, hist, lastSeen>>

-----------------------------------------------------------------------------
(* Bounds and input domains *)

\* longest configured interface list explored
MaxNics == 2

\* interface names that may be configured / may exist on the host
Ifaces == {"eth0", "ppp0"}

RECURSIVE SeqsUpTo(_, _)
SeqsUpTo(S, n) ==
    IF n = 0 THEN {<<>>}
    ELSE LET shorter == SeqsUpTo(S, n - 1)
         IN  shorter \cup {Append(s, x) : s \in {t \in shorter : Len(t) = n - 1}, x \in S}

\* main refuses to start with no positional argument (flag.NArg() < 1)
NicLists == {l \in SeqsUpTo(Ifaces, MaxNics) : Len(l) >= 1}

Get(f, key, dflt) == IF key \in DOMAIN f THEN f[key] ELSE dflt

Max(a, b) == IF a >= b THEN a ELSE b

-----------------------------------------------------------------------------
(* The decoded record types and their zero values *)

ZeroStats ==
    [Bytes |-> 0, Packets |-> 0, Drops |-> 0, Overlimits |-> 0, Requeues |-> 0,
     Backlog |-> 0, Qlen |-> 0, Lended |-> 0, Borrowed |-> 0, Giants |-> 0,
     Tokens |-> 0, Ctokens |-> 0]

ZeroClass ==
    [Device |-> "", Parent |-> "", Kind |-> "", Handle |-> "", Root |-> FALSE,
     Leaf |-> "", Prio |-> 0, Rate |-> 0, Ceil |-> 0, Burst |-> 0, Cburst |-> 0,
     Stats |-> ZeroStats]

ZeroOptions == [R2q |-> 0, DirectPacketsStat |-> 0, DirectQlen |-> 0]

ZeroQdisc ==
    [Device |-> "", Parent |-> "", Kind |-> "", Handle |-> "", Root |-> FALSE,
     Options |-> ZeroOptions, Bytes |-> 0, Packets |-> 0, Drops |-> 0,
     Overlimits |-> 0, Requeues |-> 0, Backlog |-> 0, Qlen |-> 0]

(* encoding/json decoding a JSON object into an existing struct value: a key  *)
(* present in the object overwrites the field carrying that tag, a field      *)
(* whose key is absent keeps what the struct held, unknown keys are ignored.  *)
DecodeStats(old, obj) ==
    [Bytes      |-> Get(obj, "bytes", old.Bytes),
     Packets    |-> Get(obj, "packets", old.Packets),
     Drops      |-> Get(obj, "drops", old.Drops),
     Overlimits |-> Get(obj, "overlimits", old.Overlimits),
     Requeues   |-> Get(obj, "requeues", old.Requeues),
     Backlog    |-> Get(obj, "backlog", old.Backlog),
     Qlen       |-> Get(obj, "qlen", old.Qlen),
     Lended     |-> Get(obj, "lended", old.Lended),
     Borrowed   |-> Get(obj, "borrowed", old.Borrowed),
     Giants     |-> Get(obj, "giants", old.Giants),
     Tokens     |-> Get(obj, "tokens", old.Tokens),
     Ctokens    |-> Get(obj, "ctokens", old.Ctokens)]

DecodeClass(old, obj) ==
    [Device |-> Get(obj, "device", old.Device),
     Parent |-> Get(obj, "parent", old.Parent),
     Kind   |-> Get(obj, "class", old.Kind),
     Handle |-> Get(obj, "handle", old.Handle),
     Root   |-> Get(obj, "root", old.Root),
     Leaf   |-> Get(obj, "leaf", old.Leaf),
     Prio   |-> Get(obj, "prio", old.Prio),
     Rate   |-> Get(obj, "rate", old.Rate),
     Ceil   |-> Get(obj, "ceil", old.Ceil),
     Burst  |-> Get(obj, "burst", old.Burst),
     Cburst |-> Get(obj, "cburst", old.Cburst),
     Stats  |-> IF "stats" \in DOMAIN obj
                THEN DecodeStats(old.Stats, obj["stats"]) ELSE old.Stats]

DecodeOptions(old, obj) ==
    [R2q               |-> Get(obj, "r2q", old.R2q),
     DirectPacketsStat |-> Get(obj, "direct_packets_stat", old.DirectPacketsStat),
     DirectQlen        |-> Get(obj, "direct_qlen", old.DirectQlen)]

DecodeQdisc(old, obj) ==
    [Device     |-> Get(obj, "device", old.Device),
     Parent     |-> Get(obj, "parent", old.Parent),
     Kind       |-> Get(obj, "class", old.Kind),
     Handle     |-> Get(obj, "handle", old.Handle),
     Root       |-> Get(obj, "root", old.Root),
     Options    |-> IF "options" \in DOMAIN obj
                    THEN DecodeOptions(old.Options, obj["options"]) ELSE old.Options,
     Bytes      |-> Get(obj, "bytes", old.Bytes),
     Packets    |-> Get(obj, "packets", old.Packets),
     Drops      |-> Get(obj, "drops", old.Drops),
     Overlimits |-> Get(obj, "overlimits", old.Overlimits),
     Requeues   |-> Get(obj, "requeues", old.Requeues),
     Backlog    |-> Get(obj, "backlog", old.Backlog),
     Qlen       |-> Get(obj, "qlen", old.Qlen)]

DecodeInto(kind, old, obj) ==
    IF kind = "class" THEN DecodeClass(old, obj) ELSE DecodeQdisc(old, obj)

Zero(kind) == IF kind = "class" THEN ZeroClass ELSE ZeroQdisc

(* A Go slice: arr is the backing array as far as it was ever written, len   *)
(* the slice length; the nil slice is NilSlice.                              *)
NilSlice == [arr |-> <<>>, len |-> 0]

SliceElems(s) == SubSeq(s.arr, 1, s.len)

-----------------------------------------------------------------------------
(* What the external command can answer *)

\* exit status of cmd.Output() and, when it is 0, the bytes on stdout:
\* either not the JSON the decoder accepts, or a JSON array of objects
CmdFails == [exit |-> 1, json |-> FALSE, objs |-> <<>>]
NotJson == [exit |-> 0, json |-> FALSE, objs |-> <<>>]
JsonArray(objs) == [exit |-> 0, json |-> TRUE, objs |-> objs]

\* tc class objects: a root class as tc prints it (no parent, no device key)
RootClassObj ==
    ("class" :> "htb" @@ "handle" :> "1:1" @@ "root" :> TRUE @@ "rate" :> 2
     @@ "stats" :> ("bytes" :> 5 @@ "packets" :> 1))
\* a leaf class as tc prints it (parent, no root key)
LeafClassObj ==
    ("class" :> "htb" @@ "handle" :> "1:10" @@ "parent" :> "1:1" @@ "prio" :> 2
     @@ "rate" :> 1 @@ "ceil" :> 2 @@ "stats" :> ("bytes" :> 3 @@ "packets" :> 1))
\* a root class with an upstream parent of "" and a misreported device
RootEmptyParentObj ==
    ("class" :> "htb" @@ "handle" :> "2:1" @@ "root" :> TRUE @@ "parent" :> ""
     @@ "device" :> "lo" @@ "stats" :> ("bytes" :> 7))
\* an object that says root false and carries neither parent nor device
BareClassObj ==
    ("class" :> "sfq" @@ "handle" :> "1:20" @@ "root" :> FALSE)

ClassAnswers ==
    {CmdFails, NotJson, JsonArray(<<>>),
     JsonArray(<<RootClassObj>>),
     JsonArray(<<LeafClassObj>>),
     JsonArray(<<BareClassObj>>),
     JsonArray(<<RootClassObj, LeafClassObj>>),
     JsonArray(<<RootEmptyParentObj, BareClassObj>>)}

\* tc qdisc objects; tc names the discipline under "kind", a key Qdisc has no tag for
RootQdiscObj ==
    ("kind" :> "htb" @@ "handle" :> "1:" @@ "root" :> TRUE
     @@ "options" :> ("r2q" :> 10 @@ "direct_qlen" :> 4) @@ "bytes" :> 8 @@ "packets" :> 2)
ChildQdiscObj ==
    ("kind" :> "sfq" @@ "class" :> "sfq" @@ "handle" :> "10:" @@ "parent" :> "1:10"
     @@ "device" :> "lo" @@ "bytes" :> 3)
BareQdiscObj ==
    ("handle" :> "20:" @@ "root" :> FALSE @@ "backlog" :> 1)

QdiscAnswers ==
    {CmdFails, NotJson, JsonArray(<<>>),
     JsonArray(<<RootQdiscObj>>),
     JsonArray(<<ChildQdiscObj>>),
     JsonArray(<<BareQdiscObj>>),
     JsonArray(<<RootQdiscObj, ChildQdiscObj>>),
     JsonArray(<<ChildQdiscObj, BareQdiscObj>>)}

Answers(kind) == IF kind = "class" THEN ClassAnswers ELSE QdiscAnswers

-----------------------------------------------------------------------------
(* collectMetricsClasses / collectMetricsQdiscs *)

(* json.Unmarshal(output, &slice) with a JSON array: element i of the array  *)
(* is decoded INTO slice element i when the backing array already has one    *)
(* (its fields are not zeroed first), into a zero element otherwise; the     *)
(* slice length becomes the array's length; an empty array gives a fresh     *)
(* empty slice.  Nothing is appended to what the slice held before.          *)
Unmarshal(kind, objs, s) ==
    LET n == Len(objs)
    IN  IF n = 0 THEN [arr |-> <<>>, len |-> 0]
        ELSE [arr |-> [i \in 1..Max(Len(s.arr), n) |->
                         IF i <= n
                         THEN DecodeInto(kind,
                                         IF i <= Len(s.arr) THEN s.arr[i] ELSE Zero(kind),
                                         objs[i])
                         ELSE s.arr[i]],
              len |-> n]

\* the body of `for i := range classes`: one element, mutated in place
BackfillNoDevice(rec, nic) ==
    [rec EXCEPT !.Parent = IF rec.Root THEN "root" ELSE @]

Backfill(rec, nic) ==
    [rec EXCEPT !.Device = nic,
                !.Parent = IF rec.Root THEN "root" ELSE @]

\* `for i := range classes { ... }` over the slice's current length
BackfillAll(s, nic) ==
    [s EXCEPT !.arr = [i \in 1..Len(s.arr) |->
                         IF i <= s.len THEN Backfill(s.arr[i], nic) ELSE s.arr[i]]]

\* the first loop: keep, in order, every configured name InterfaceByName resolves
ValidNicsUnchecked(names, up) == names

RECURSIVE ValidNicsFrom(_, _, _, _)
ValidNicsFrom(names, up, j, acc) ==
    IF j > Len(names) THEN acc
    ELSE ValidNicsFrom(names, up, j + 1,
                       IF names[j] \in up THEN Append(acc, names[j]) ELSE acc)

ValidNics(names, up) == ValidNicsFrom(names, up, 1, <<>>)

\* what the collector returns, with the commands it ran (one nic per invocation)
Returned(recs, err, cmds) == [called |-> TRUE, recs |-> recs, err |-> err, cmds |-> cmds]

NotRun == [called |-> FALSE, recs |-> <<>>, err |-> "", cmds |-> <<>>]

\* `if err != nil { return nil, ... }` after cmd.Output() / json.Unmarshal
ErrorOfIgnored(answer) == ""

ErrorOf(answer) ==
    IF answer.exit # 0 THEN "command error"
    ELSE IF ~answer.json THEN "json error"
    ELSE ""

(* The second loop, from the k-th valid interface on.  answers[k] is what    *)
(* the k-th invocation of tc answers.                                        *)
RECURSIVE CollectLoop(_, _, _, _, _, _)
CollectLoop(kind, validNics, k, s, answers, cmds) ==
    IF k > Len(validNics) THEN Returned(SliceElems(s), "", cmds)
    ELSE LET nic == validNics[k]
             answer == answers[k]
             ran == Append(cmds, nic)
         IN  IF ErrorOf(answer) # "" THEN Returned(<<>>, ErrorOf(answer), ran)
             ELSE CollectLoop(kind, validNics, k + 1,
                              BackfillAll(Unmarshal(kind, answer.objs, s), nic),
                              answers, ran)

collectMetricsClasses(names, up, answers) ==
    CollectLoop("class", ValidNics(names, up), 1, NilSlice, answers, <<>>)

collectMetricsQdiscs(names, up, answers) ==
    CollectLoop("qdisc", ValidNics(names, up), 1, NilSlice, answers, <<>>)

-----------------------------------------------------------------------------
(* The gauges and the two registries *)

\* WithLabelValues(x.Kind, x.Handle, x.Parent, x.Device)
LabelValues(rec) == <<rec.Kind, rec.Handle, rec.Parent, rec.Device>>

\* /metrics, `for _, class := range classes`: gauge -> value set for one class
StatsOfClass(class) ==
    [cstatsBytesGauge      |-> class.Stats.Bytes,
     cstatsPacketsGauge    |-> class.Stats.Packets,
     cstatsDropsGauge      |-> class.Stats.Drops,
     cstatsOverlimitsGauge |-> class.Stats.Overlimits,
     cstatsRequeuesGauge   |-> class.Stats.Requeues,
     cstatsLendedGauge     |-> class.Stats.Lended,
     cstatsBorrowedGauge   |-> class.Stats.Borrowed]

\* /metrics, `for _, qdisc := range qdiscs`
StatsOfQdisc(qdisc) ==
    [qstatsBytesGauge      |-> qdisc.Bytes,
     qstatsPacketsGauge    |-> qdisc.Packets,
     qstatsDropsGauge      |-> qdisc.Drops,
     qstatsOverlimitsGauge |-> qdisc.Overlimits,
     qstatsRequeuesGauge   |-> qdisc.Requeues,
     qstatsBacklogGauge    |-> qdisc.Backlog,
     qstatsLenGauge        |-> qdisc.Qlen]

\* /params, `for _, class := range classes`
ParamsOfClass(class) ==
    [prioGauge   |-> class.Prio,
     rateGauge   |-> class.Rate,
     ceilGauge   |-> class.Ceil,
     burstGauge  |-> class.Burst,
     cburstGauge |-> class.Cburst]

\* /params, `for _, qdisc := range qdiscs`
ParamsOfQdisc(qdisc) ==
    [r2qGauge                 |-> qdisc.Options.R2q,
     direct_packets_statGauge |-> qdisc.Options.DirectPacketsStat,
     direct_qlenGauge         |-> qdisc.Options.DirectQlen]

Endpoints == {"/metrics", "/params"}

ClassGauges(e) ==
    IF e = "/metrics" THEN DOMAIN StatsOfClass(ZeroClass) ELSE DOMAIN ParamsOfClass(ZeroClass)

QdiscGauges(e) ==
    IF e = "/metrics" THEN DOMAIN StatsOfQdisc(ZeroQdisc) ELSE DOMAIN ParamsOfQdisc(ZeroQdisc)

\* statsRegistry.MustRegister(...) / paramsRegistry.MustRegister(...)
statsRegistry == ClassGauges("/metrics") \cup QdiscGauges("/metrics")
paramsRegistry == ClassGauges("/params") \cup QdiscGauges("/params")

Registry(e) == IF e = "/metrics" THEN statsRegistry ELSE paramsRegistry

AllGauges == statsRegistry \cup paramsRegistry

ClassValues(e, class) ==
    IF e = "/metrics" THEN StatsOfClass(class) ELSE ParamsOfClass(class)

QdiscValues(e, qdisc) ==
    IF e = "/metrics" THEN StatsOfQdisc(qdisc) ELSE ParamsOfQdisc(qdisc)

\* GaugeVec.WithLabelValues(labels...).Set(v): last write wins per label tuple
SetSample(samples, labels, v) ==
    {x \in samples : x.labels # labels} \cup {[labels |-> labels, val |-> v]}

\* the block of <gauge>.Reset() calls opening a handler
ResetSkipped(g, e) == g

ResetEverything(g, e) == [n \in DOMAIN g |-> {}]

ResetGroup(g, e) == [n \in DOMAIN g |-> IF n \in Registry(e) THEN {} ELSE g[n]]

\* one iteration of `for _, class := range classes`
SetClassSkipped(g, e, class) == g

SetClass(g, e, class) ==
    [n \in DOMAIN g |->
        IF n \in ClassGauges(e)
        THEN SetSample(g[n], LabelValues(class), ClassValues(e, class)[n])
        ELSE g[n]]

\* one iteration of `for _, qdisc := range qdiscs`
SetQdisc(g, e, qdisc) ==
    [n \in DOMAIN g |->
        IF n \in QdiscGauges(e)
        THEN SetSample(g[n], LabelValues(qdisc), QdiscValues(e, qdisc)[n])
        ELSE g[n]]

\* promhttp.HandlerFor(registry, ...).ServeHTTP: the registry's gauges as they are
Gather(g, e) == [n \in Registry(e) |-> g[n]]

\* label tuples present in a gathered body (or a group of gauges)
TuplesIn(body) == UNION {{x.labels : x \in body[n]} : n \in DOMAIN body}

-----------------------------------------------------------------------------
(* SpecCollect: the collectors as functions of their inputs *)

Goroutines == {"g1", "g2"}

NoResp == [status |-> 0, text |-> "", body |-> <<>>]

IdleHist == [solo |-> FALSE, before |-> {}, cmds |-> <<>>, err |-> "", steps |-> <<>>,
             sawC |-> {}, sawQ |-> {}]

ServerIdle ==
    /\ gauges = [n \in AllGauges |-> {}]
    /\ pc = [p \in Goroutines |-> "idle"]
    /\ endpoint = [p \in Goroutines |-> "/metrics"]
    /\ classes = [p \in Goroutines |-> <<>>]
    /\ qdiscs = [p \in Goroutines |-> <<>>]
    /\ ci = [p \in Goroutines |-> 0]
    /\ qi = [p \in Goroutines |-> 0]
    /\ resp = [p \in Goroutines |-> NoResp]
    /\ hist = [p \in Goroutines |-> IdleHist]
    /\ lastSeen = [any |-> FALSE, up |-> {}]

InitCollect ==
    /\ nics \in NicLists
    /\ host \in SUBSET Ifaces
    /\ kindIn \in {"class", "qdisc"}
    /\ tcIn \in [1..Len(nics) -> Answers(kindIn)]
    /\ ret = NotRun
    /\ ServerIdle

CallCollectClasses ==
    /\ kindIn = "class"
    /\ ~ret.called
    /\ ret' = collectMetricsClasses(nics, host, tcIn)
    /\ UNCHANGED <<nics, host, kindIn, tcIn, serverVars>>

CallCollectQdiscs ==
    /\ kindIn = "qdisc"
    /\ ~ret.called
    /\ ret' = collectMetricsQdiscs(nics, host, tcIn)
    /\ UNCHANGED <<nics, host, kindIn, tcIn, serverVars>>

NextCollect == CallCollectClasses \/ CallCollectQdiscs

SpecCollect == InitCollect /\ [][NextCollect]_vars

-----------------------------------------------------------------------------
(* Claims about the collectors (checked under SpecCollect) *)

\* the configured names that exist, in configured order, duplicates kept
ExistingSubseq ==
    LET Exists(n) == n \in host
    IN  SelectSeq(nics, Exists)

IsPrefix(s, t) == Len(s) <= Len(t) /\ SubSeq(t, 1, Len(s)) = s

AnswerFailed(answer) == answer.exit # 0 \/ ~answer.json

\* one interface's answer decoded on its own: every object into a zero record,
\* device back-filled, parent "root" for a root record
DecodedAlone(kind, nic, answer) ==
    [i \in 1..Len(answer.objs) |->
        LET rec == DecodeInto(kind, Zero(kind), answer.objs[i])
        IN  [rec EXCEPT !.Device = nic, !.Parent = IF rec.Root THEN "root" ELSE @]]

RECURSIVE ConcatDecoded(_, _, _, _)
ConcatDecoded(kind, valid, answers, k) ==
    IF k > Len(valid) THEN <<>>
    ELSE DecodedAlone(kind, valid[k], answers[k]) \o ConcatDecoded(kind, valid, answers, k + 1)

\* the answer of the last command a collection ran
LastAnswer == tcIn[Len(ret.cmds)]

(* C1: with two or more valid interfaces, a successful collection returns the *)
(* concatenation of every valid interface's decoded records, in interface     *)
(* order, no record of an earlier interface lost or overwritten.              *)
C1_ReturnsConcatenation ==
    (ret.called /\ ret.err = "" /\ Len(ret.cmds) >= 2)
        => ret.recs = ConcatDecoded(kindIn, ExistingSubseq, tcIn, 1)

(* C5: commands are issued exactly for the configured names that exist, in    *)
(* configured order, one per occurrence; a missing name causes neither a      *)
(* command nor an error.                                                      *)
C5_CommandsForExistingOnly ==
    ret.called =>
        /\ IsPrefix(ret.cmds, ExistingSubseq)
        /\ ret.err = "" => ret.cmds = ExistingSubseq
        /\ ret.err # "" => (ret.cmds # <<>> /\ AnswerFailed(LastAnswer))

C5_Witness ==
    /\ ret.called
    /\ nics = <<"eth0", "ppp0">>
    /\ host = {"eth0"}
    /\ ret.err = ""
    /\ ret.cmds = <<"eth0">>
    /\ Len(ret.recs) >= 1

(* C6: every returned record whose root flag is true has parent "root",       *)
(* whatever parent the raw record carried; a record whose root flag is false  *)
(* has the parent that was decoded from its raw record.                       *)
C6_ParentOfReturned ==
    (ret.called /\ ret.err = "" /\ ret.cmds # <<>>) =>
        /\ Len(ret.recs) = Len(LastAnswer.objs)
        /\ \A i \in 1..Len(ret.recs) :
              /\ ret.recs[i].Root => ret.recs[i].Parent = "root"
              /\ ~ret.recs[i].Root =>
                    ret.recs[i].Parent = Get(LastAnswer.objs[i], "parent", "")

(* C7: every returned record's device (and so the device label of its         *)
(* samples) is the interface whose command output it was decoded from, even   *)
(* when the raw record omits or misreports the device.                        *)
C7_DeviceIsSource ==
    (ret.called /\ ret.err = "") =>
        IF ret.cmds = <<>> THEN ret.recs = <<>>
        ELSE /\ Len(ret.recs) = Len(LastAnswer.objs)
             /\ \A i \in 1..Len(ret.recs) :
                   /\ ret.recs[i].Device = ret.cmds[Len(ret.cmds)]
                   /\ LabelValues(ret.recs[i])[4] = ret.cmds[Len(ret.cmds)]

C7_Witness ==
    /\ ret.called
    /\ ret.err = ""
    /\ Len(ret.cmds) >= 2
    /\ \E i, j \in 1..Len(ret.recs) :
          /\ "device" \in DOMAIN LastAnswer.objs[i]
          /\ LastAnswer.objs[i]["device"] # ret.cmds[Len(ret.cmds)]
          /\ "device" \notin DOMAIN LastAnswer.objs[j]
          /\ ret.recs[i].Device = ret.cmds[Len(ret.cmds)]
          /\ ret.recs[j].Device = ret.cmds[Len(ret.cmds)]

-----------------------------------------------------------------------------
(* Spec: the HTTP server.  net/http runs every request's closure on its own   *)
(* goroutine; a goroutine is idle between requests.  Each GaugeVec locks      *)
(* itself, the closures lock nothing, so the steps of two requests            *)
(* interleave: the Reset block, each collector call, each iteration of a      *)
(* range loop and the final ServeHTTP are one step each (Go interleaves the   *)
(* single Reset and Set calls as well; the coarser steps lose nothing for a   *)
(* request that runs alone).                                                  *)
(*                                                                            *)
(* hist[p] is history only, no handler reads it: solo - no other request     *)
(* has been running at any moment of this one; before - the label tuples the  *)
(* group held when a solo request began; cmds - the tc invocations so far;    *)
(* err - the error of the latest collector call; steps - the steps taken;     *)
(* sawC / sawQ - the host's interfaces at the class / qdisc collection.       *)

\* what tc answers while the server runs
ServerClassAnswers ==
    {CmdFails, NotJson, JsonArray(<<>>), JsonArray(<<LeafClassObj>>),
     JsonArray(<<RootClassObj, LeafClassObj>>)}

ServerQdiscAnswers ==
    {CmdFails, JsonArray(<<>>), JsonArray(<<RootQdiscObj>>)}

\* Spec: the configured list and the interfaces of the host (which stay)
ServerNics == <<"eth0", "ppp0">>
ServerHost == {"eth0"}

Init ==
    /\ nics = ServerNics
    /\ host = ServerHost
    /\ kindIn = "class"
    /\ tcIn = <<>>
    /\ ret = NotRun
    /\ ServerIdle

\* commands a collector call ran, as the request's history keeps them
Ran(kind, r, answers) ==
    [k \in 1..Len(r.cmds) |->
        [kind |-> kind, nic |-> r.cmds[k], n |-> Len(answers[k].objs),
         failed |-> AnswerFailed(answers[k])]]

\* `if err != nil { http.Error(...); return }`
FailedIgnored(r) == FALSE

Failed(r) == r.err # ""

\* the range loops are over: the closure reaches ServeHTTP
ReadyEarly(p) == pc[p] = "populate"

ReadyToServe(p) ==
    /\ pc[p] = "populate"
    /\ ci[p] = Len(classes[p])
    /\ qi[p] = Len(qdiscs[p])

(* A request for endpoint e arrives at idle goroutine p: the closure starts   *)
(* and resets every gauge of e's group.                                       *)
Reset(p, e) ==
    /\ pc[p] = "idle"
    /\ gauges' = ResetGroup(gauges, e)
    /\ pc' = [pc EXCEPT ![p] = "collectClasses"]
    /\ endpoint' = [endpoint EXCEPT ![p] = e]
    /\ hist' = [q \in Goroutines |->
                  IF q = p
                  THEN [IdleHist EXCEPT !.solo = \A o \in Goroutines \ {p} : pc[o] = "idle",
                                        !.before = IF \A o \in Goroutines \ {p} : pc[o] = "idle"
                                                   THEN TuplesIn(Gather(gauges, e)) ELSE {},
                                        !.steps = <<"reset">>]
                  ELSE IF pc[q] # "idle" THEN [hist[q] EXCEPT !.solo = FALSE, !.before = {}]
                  ELSE hist[q]]
    /\ UNCHANGED <<nics, host, collectVars, classes, qdiscs, ci, qi, resp,
                   lastSeen>>

\* classes, err := collectMetricsClasses(nics)
CollectClasses(p) ==
    /\ pc[p] = "collectClasses"
    /\ \E answers \in [1..Len(nics) -> ServerClassAnswers] :
          LET r == collectMetricsClasses(nics, host, answers)
          IN  /\ hist' = [hist EXCEPT ![p].cmds = @ \o Ran("class", r, answers),
                                      ![p].err = r.err,
                                      ![p].steps = Append(@, "classes"),
                                      ![p].sawC = host]
              /\ classes' = [classes EXCEPT ![p] = r.recs]
              /\ IF Failed(r)
                 THEN /\ resp' = [resp EXCEPT ![p] = [status |-> 500, text |-> r.err,
                                                      body |-> <<>>]]
                      /\ pc' = [pc EXCEPT ![p] = "done"]
                 ELSE /\ resp' = resp
                      /\ pc' = [pc EXCEPT ![p] = "collectQdiscs"]
    /\ UNCHANGED <<nics, host, collectVars, gauges, endpoint, qdiscs, ci, qi,
                   lastSeen>>

\* qdiscs, err := collectMetricsQdiscs(nics)
CollectQdiscs(p) ==
    /\ pc[p] = "collectQdiscs"
    /\ \E answers \in [1..Len(nics) -> ServerQdiscAnswers] :
          LET r == collectMetricsQdiscs(nics, host, answers)
          IN  /\ hist' = [hist EXCEPT ![p].cmds = @ \o Ran("qdisc", r, answers),
                                      ![p].err = r.err,
                                      ![p].steps = Append(@, "qdiscs"),
                                      ![p].sawQ = host]
              /\ qdiscs' = [qdiscs EXCEPT ![p] = r.recs]
              /\ IF Failed(r)
                 THEN /\ resp' = [resp EXCEPT ![p] = [status |-> 500, text |-> r.err,
                                                      body |-> <<>>]]
                      /\ pc' = [pc EXCEPT ![p] = "done"]
                 ELSE /\ resp' = resp
                      /\ pc' = [pc EXCEPT ![p] = "populate"]
    /\ UNCHANGED <<nics, host, collectVars, gauges, endpoint, classes, ci, qi,
                   lastSeen>>

\* one iteration of `for _, class := range classes`
SetClassGauges(p) ==
    /\ pc[p] = "populate"
    /\ ci[p] < Len(classes[p])
    /\ gauges' = SetClass(gauges, endpoint[p], classes[p][ci[p] + 1])
    /\ ci' = [ci EXCEPT ![p] = @ + 1]
    /\ hist' = [hist EXCEPT ![p].steps = Append(@, "setclass")]
    /\ UNCHANGED <<nics, host, collectVars, pc, endpoint, classes, qdiscs, qi, resp,
                   lastSeen>>

\* one iteration of `for _, qdisc := range qdiscs`
SetQdiscGauges(p) ==
    /\ pc[p] = "populate"
    /\ ci[p] = Len(classes[p])
    /\ qi[p] < Len(qdiscs[p])
    /\ gauges' = SetQdisc(gauges, endpoint[p], qdiscs[p][qi[p] + 1])
    /\ qi' = [qi EXCEPT ![p] = @ + 1]
    /\ hist' = [hist EXCEPT ![p].steps = Append(@, "setqdisc")]
    /\ UNCHANGED <<nics, host, collectVars, pc, endpoint, classes, qdiscs, ci, resp,
                   lastSeen>>

\* promhttp.HandlerFor(registry, promhttp.HandlerOpts{}).ServeHTTP(w, r)
Serve(p) ==
    /\ ReadyToServe(p)
    /\ LET body == Gather(gauges, endpoint[p])
       IN  resp' = [resp EXCEPT ![p] = [status |-> 200, text |-> "", body |-> body]]
    /\ pc' = [pc EXCEPT ![p] = "done"]
    /\ hist' = [hist EXCEPT ![p].steps = Append(@, "serve")]
    /\ UNCHANGED <<nics, host, collectVars, gauges, endpoint, classes, qdiscs, ci, qi,
                   lastSeen>>

\* the closure returns; its locals are gone and the goroutine is free again
Return(p) ==
    /\ pc[p] = "done"
    /\ pc' = [pc EXCEPT ![p] = "idle"]
    /\ classes' = [classes EXCEPT ![p] = <<>>]
    /\ qdiscs' = [qdiscs EXCEPT ![p] = <<>>]
    /\ ci' = [ci EXCEPT ![p] = 0]
    /\ qi' = [qi EXCEPT ![p] = 0]
    /\ resp' = [resp EXCEPT ![p] = NoResp]
    /\ hist' = [hist EXCEPT ![p] = IdleHist]
    /\ lastSeen' = [any |-> TRUE, up |-> hist[p].sawC \cup hist[p].sawQ]
    /\ UNCHANGED <<nics, host, collectVars, gauges, endpoint>>

\* the host gains or loses an interface
InterfaceAppears(n) ==
    /\ n \notin host
    /\ host' = host \cup {n}
    /\ UNCHANGED <<nics, collectVars, serverVars>>

InterfaceDisappears(n) ==
    /\ n \in host
    /\ host' = host \ {n}
    /\ UNCHANGED <<nics, collectVars, serverVars>>

\* requests on both goroutines, overlapping at will, on a host that stays as it is
Next ==
    \/ \E p \in Goroutines, e \in Endpoints : Reset(p, e)
    \/ \E p \in Goroutines : CollectClasses(p)
    \/ \E p \in Goroutines : CollectQdiscs(p)
    \/ \E p \in Goroutines : SetClassGauges(p)
    \/ \E p \in Goroutines : SetQdiscGauges(p)
    \/ \E p \in Goroutines : Serve(p)
    \/ \E p \in Goroutines : Return(p)

Spec == Init /\ [][Next]_vars

(* SpecHotplug: one request at a time (goroutine g1), from a scraper that     *)
(* polls one of the two endpoints, on a host whose interfaces come and go     *)
(* between and during requests.                                               *)
OnlyScraped(e) == \A n \in AllGauges \ Registry(e) : gauges[n] = {}

HotplugNics == <<"ppp0", "eth0">>

InitHotplug ==
    /\ nics = HotplugNics
    /\ host \in SUBSET Ifaces
    /\ kindIn = "class"
    /\ tcIn = <<>>
    /\ ret = NotRun
    /\ ServerIdle

NextHotplug ==
    \/ \E e \in Endpoints : OnlyScraped(e) /\ Reset("g1", e)
    \/ CollectClasses("g1")
    \/ CollectQdiscs("g1")
    \/ SetClassGauges("g1")
    \/ SetQdiscGauges("g1")
    \/ Serve("g1")
    \/ Return("g1")
    \/ \E n \in Ifaces : InterfaceAppears(n)
    \/ \E n \in Ifaces : InterfaceDisappears(n)

SpecHotplug == InitHotplug /\ [][NextHotplug]_vars

-----------------------------------------------------------------------------
(* Claims about the handlers *)

\* label tuples of the records a request collected
CollectedTuples(p) ==
    {LabelValues(classes[p][i]) : i \in 1..Len(classes[p])}
        \cup {LabelValues(qdiscs[p][j]) : j \in 1..Len(qdiscs[p])}

GroupTuples(e) == TuplesIn(Gather(gauges, e))

Count(seq, x) == Cardinality({i \in 1..Len(seq) : seq[i] = x})

(* C2: a request that no other request overlaps serializes no sample for a    *)
(* label tuple that its endpoint's group held from the previous request and   *)
(* that none of its own collected records carries.                            *)
C2_NoStaleTuple ==
    \A p \in Goroutines :
        /\ (ReadyToServe(p) /\ hist[p].solo) =>
              \A t \in hist[p].before \ CollectedTuples(p) : t \notin GroupTuples(endpoint[p])
        /\ (pc[p] = "done" /\ resp[p].status = 200 /\ hist[p].solo) =>
              \A t \in hist[p].before \ CollectedTuples(p) : t \notin TuplesIn(resp[p].body)

C2_Witness ==
    \E p \in Goroutines :
        /\ pc[p] = "done"
        /\ resp[p].status = 200
        /\ hist[p].solo
        /\ \E t \in hist[p].before : t \notin CollectedTuples(p) /\ t \notin TuplesIn(resp[p].body)
        /\ CollectedTuples(p) # {}

(* C3: a request whose class or qdisc collection returned an error answers    *)
(* 500 with the error's message and sets no gauge; unless another request     *)
(* overlaps it, every gauge of its group is empty when it returns.            *)
C3_ErrorMeans500AndEmpty ==
    \A p \in Goroutines :
        (hist[p].err # "" /\ pc[p] # "idle") =>
            /\ pc[p] = "done"
            /\ resp[p].status = 500
            /\ resp[p].text = hist[p].err
            /\ ci[p] = 0 /\ qi[p] = 0
            /\ Count(hist[p].steps, "setclass") = 0
            /\ Count(hist[p].steps, "setqdisc") = 0
            /\ hist[p].solo => \A n \in Registry(endpoint[p]) : gauges[n] = {}

C3_Witness ==
    \E p \in Goroutines :
        /\ pc[p] = "done"
        /\ resp[p].status = 500
        /\ Count(hist[p].steps, "qdiscs") = 1
        /\ Len(classes[p]) >= 1
        /\ hist[p].solo
        /\ hist[p].before # {}
        /\ \A n \in Registry(endpoint[p]) : gauges[n] = {}

Rank(step) ==
    CASE step = "reset" -> 1
      [] step = "classes" -> 2
      [] step = "qdiscs" -> 3
      [] step = "setclass" -> 4
      [] step = "setqdisc" -> 5
      [] step = "serve" -> 6

(* C9: within one request the group is reset first, then the class and the    *)
(* qdisc collection run, only then is any gauge set, and the response is      *)
(* serialized only after a gauge set for every collected record.              *)
C9_StepsInOrder ==
    \A p \in Goroutines :
        LET st == hist[p].steps
        IN  /\ pc[p] # "idle" => (st # <<>> /\ st[1] = "reset")
            /\ \A i, j \in 1..Len(st) : i < j => Rank(st[i]) <= Rank(st[j])
            /\ Count(st, "reset") <= 1 /\ Count(st, "classes") <= 1
            /\ Count(st, "qdiscs") <= 1 /\ Count(st, "serve") <= 1
            /\ (Count(st, "setclass") > 0 \/ Count(st, "setqdisc") > 0 \/ ci[p] > 0 \/ qi[p] > 0)
                  => (Count(st, "classes") = 1 /\ Count(st, "qdiscs") = 1 /\ hist[p].err = "")
            /\ (Count(st, "serve") = 1 \/ resp[p].status = 200) =>
                  /\ Count(st, "setclass") = Len(classes[p])
                  /\ Count(st, "setqdisc") = Len(qdiscs[p])
                  /\ ci[p] = Len(classes[p]) /\ qi[p] = Len(qdiscs[p])
                  /\ Count(st, "serve") = 1 /\ resp[p].status = 200

C9_Witness ==
    \E p \in Goroutines :
        /\ pc[p] = "done"
        /\ resp[p].status = 200
        /\ Len(classes[p]) >= 2
        /\ Len(qdiscs[p]) >= 1
        /\ hist[p].steps = <<"reset", "classes", "qdiscs", "setclass", "setclass",
                             "setqdisc", "serve">>

\* the body carries, in every gauge of the request's endpoint, the sample of
\* every record the request collected
Complete(body, p) ==
    /\ \A i \in 1..Len(classes[p]) : \A n \in ClassGauges(endpoint[p]) :
          [labels |-> LabelValues(classes[p][i]),
           val |-> ClassValues(endpoint[p], classes[p][i])[n]] \in body[n]
    /\ \A j \in 1..Len(qdiscs[p]) : \A n \in QdiscGauges(endpoint[p]) :
          [labels |-> LabelValues(qdiscs[p][j]),
           val |-> QdiscValues(endpoint[p], qdiscs[p][j])[n]] \in body[n]

(* C10: nothing guards the gauges, so a request overlapped by another one on  *)
(* the same endpoint can serialize an empty or partly populated group after   *)
(* a successful, non-empty collection (the witness); a request that nothing   *)
(* overlaps always serializes the sample of every record it collected.        *)
C10_IncompleteOnlyWhenOverlapped ==
    \A p \in Goroutines :
        (pc[p] = "done" /\ resp[p].status = 200 /\ ~Complete(resp[p].body, p))
            => ~hist[p].solo

C10_Witness ==
    \E p, q \in Goroutines :
        /\ p # q
        /\ pc[p] = "done"
        /\ resp[p].status = 200
        /\ hist[p].err = ""
        /\ Len(classes[p]) >= 1
        /\ ci[p] = Len(classes[p]) /\ qi[p] = Len(qdiscs[p])
        /\ ~Complete(resp[p].body, p)
        /\ pc[q] # "idle"
        /\ endpoint[q] = endpoint[p]

-----------------------------------------------------------------------------
(* Claims checked under SpecHotplug *)

CmdsOf(p, kind) ==
    LET IsKind(c) == c.kind = kind
    IN  SelectSeq(hist[p].cmds, IsKind)

(* C4: when the command or the decode fails for the k-th valid interface the  *)
(* collector returns an error and no records (those of the interfaces before  *)
(* k are discarded), runs no command for an interface after k, and after a    *)
(* failed class collection the handler never starts the qdisc collection.     *)
C4_AbortOnFirstFailure ==
    \A p \in Goroutines :
        LET cc == CmdsOf(p, "class")
            qc == CmdsOf(p, "qdisc")
        IN  /\ \A k \in 1..Len(cc) : cc[k].failed =>
                  /\ k = Len(cc)
                  /\ classes[p] = <<>>
                  /\ hist[p].err # ""
                  /\ qc = <<>>
                  /\ Count(hist[p].steps, "qdiscs") = 0
                  /\ pc[p] = "done" /\ resp[p].status = 500
            /\ \A k \in 1..Len(qc) : qc[k].failed =>
                  /\ k = Len(qc)
                  /\ qdiscs[p] = <<>>
                  /\ hist[p].err # ""
                  /\ pc[p] = "done" /\ resp[p].status = 500

C4_Witness ==
    \E p \in Goroutines :
        LET cc == CmdsOf(p, "class")
        IN  /\ pc[p] = "done"
            /\ Len(cc) = 2
            /\ ~cc[1].failed /\ cc[1].n >= 1
            /\ cc[2].failed
            /\ classes[p] = <<>>
            /\ CmdsOf(p, "qdisc") = <<>>
            /\ resp[p].status = 500

\* the gauges a kind of record is published in, for the request's endpoint
GaugesOfKind(e, kind) == IF kind = "class" THEN ClassGauges(e) ELSE QdiscGauges(e)

(* C8: validity is evaluated afresh in every collection: an interface the     *)
(* previous request did not find and that exists when this request collects   *)
(* is queried and its records are published by this request; an interface     *)
(* the previous request found and that is gone now is not queried.            *)
C8_FreshValidityPublishes ==
    \A p \in Goroutines :
        (ReadyToServe(p) /\ hist[p].solo /\ lastSeen.any) =>
            \A i \in 1..Len(nics) :
                LET nic == nics[i]
                IN  /\ (nic \notin lastSeen.up /\ nic \in hist[p].sawC /\ nic \in hist[p].sawQ) =>
                          /\ \E k \in 1..Len(hist[p].cmds) :
                                hist[p].cmds[k].kind = "class" /\ hist[p].cmds[k].nic = nic
                          /\ \E k \in 1..Len(hist[p].cmds) :
                                hist[p].cmds[k].kind = "qdisc" /\ hist[p].cmds[k].nic = nic
                          /\ \A k \in 1..Len(hist[p].cmds) :
                                (hist[p].cmds[k].nic = nic /\ hist[p].cmds[k].n > 0) =>
                                    \A g \in GaugesOfKind(endpoint[p], hist[p].cmds[k].kind) :
                                        \E x \in gauges[g] : x.labels[4] = nic
                    /\ (nic \in lastSeen.up /\ nic \notin hist[p].sawC) =>
                          \A k \in 1..Len(hist[p].cmds) :
                              ~(hist[p].cmds[k].kind = "class" /\ hist[p].cmds[k].nic = nic)
                    /\ (nic \in lastSeen.up /\ nic \notin hist[p].sawQ) =>
                          \A k \in 1..Len(hist[p].cmds) :
                              ~(hist[p].cmds[k].kind = "qdisc" /\ hist[p].cmds[k].nic = nic)

\* the part of C8 that is about querying alone: each collection of a request
\* ran its commands for exactly the configured names existing at that moment
C8_QueriedAreThoseExisting ==
    \A p \in Goroutines :
        /\ (Count(hist[p].steps, "classes") = 1 /\ ~(\E k \in 1..Len(hist[p].cmds) :
                hist[p].cmds[k].kind = "class" /\ hist[p].cmds[k].failed)) =>
              {c.nic : c \in {hist[p].cmds[k] : k \in {j \in 1..Len(hist[p].cmds) :
                    hist[p].cmds[j].kind = "class"}}} = {nics[i] : i \in 1..Len(nics)} \cap hist[p].sawC
        /\ (Count(hist[p].steps, "qdiscs") = 1 /\ hist[p].err = "") =>
              {c.nic : c \in {hist[p].cmds[k] : k \in {j \in 1..Len(hist[p].cmds) :
                    hist[p].cmds[j].kind = "qdisc"}}} = {nics[i] : i \in 1..Len(nics)} \cap hist[p].sawQ

-----------------------------------------------------------------------------
(* Independence of the two groups (checked under Spec) *)

OtherEndpoint(e) == IF e = "/metrics" THEN "/params" ELSE "/metrics"

\* goroutine p took the step: every handler step moves its pc or a loop index
Stepped(p) == pc'[p] # pc[p] \/ ci'[p] # ci[p] \/ qi'[p] # qi[p]

(* C11: no step of a request, successful or failed, resets or sets a gauge of *)
(* the other endpoint's group: a /metrics request leaves every gauge of the   *)
(* parameters group as it was, a /params request every gauge of the           *)
(* statistics group, and no gauge belongs to both groups.                     *)
C11_GroupsIndependent ==
    [][/\ statsRegistry \cap paramsRegistry = {}
       /\ \A p \in Goroutines :
             Stepped(p) =>
                 \A n \in Registry(OtherEndpoint(endpoint'[p])) : gauges'[n] = gauges[n]]_vars

C11_Witness ==
    \E p, q \in Goroutines :
        /\ p # q
        /\ pc[p] = "done" /\ endpoint[p] = "/metrics" /\ resp[p].status = 500
        /\ pc[q] = "done" /\ endpoint[q] = "/params" /\ resp[q].status = 200
        /\ Len(classes[q]) >= 1 /\ Len(qdiscs[q]) >= 1
        /\ Complete(Gather(gauges, "/params"), q)
        /\ \A n \in statsRegistry : gauges[n] = {}
        /\ \A n \in paramsRegistry : gauges[n] # {}

====
